---------------------------- MODULE Spec2Model ----------------------------
(***************************************************************************)
(* A model of two parts of the zkevm-circuits witness generator:           *)
(*                                                                         *)
(*   - bus-mapping/src/evm/opcodes/returndatacopy.rs: the RETURNDATACOPY   *)
(*     opcode handler (step builder + copy event builder);                 *)
(*   - revm-executor/src/database.rs: EvmDatabase, the flat state store    *)
(*     kept in lockstep with the zktrie, and its commit.                   *)
(*                                                                         *)
(* The two parts share no state.  SpecCopy runs the opcode handler,        *)
(* SpecDb runs the database; each leaves the other part's variables alone. *)
(***************************************************************************)
EXTENDS Integers, Sequences, FiniteSets, TLC

(***************************************************************************)
(* Bounds of the model.                                                    *)
(***************************************************************************)
\* largest byte value of the modelled buffers (bytes are 0..MaxByte)
MaxByte == 2
\* longest return-data buffer
MaxRet == 2
\* longest initial memory of the current call
MaxMem == 2
\* largest stack operand (destination offset, source offset, length)
MaxOff == 2
\* largest last_callee_return_data_offset
MaxBase == 1
\* the interpreter hands over a further RETURNDATACOPY step only while the
\* row counter is at most MaxRwc
MaxRwc == 9
\* largest balance, nonce and storage value (words are 0..MaxWord)
MaxWord == 1
\* commit is called while the transaction counter is at most MaxTx
MaxTx == 2

VARIABLES
    \* ---- bus-mapping: CircuitInputStateRef and the geth step -----------
    state,      \* [rwc, container, call, memory, return_data, copy_events]
    geth_step,  \* [stack]: the execution snapshot of the opcode handled next
    result,     \* outcome of the last gen_associated_ops call
    entry,      \* history: memory, rwc, container and event count at the
                \* entry of the last gen_associated_ops call
    \* ---- revm-executor: EvmDatabase ------------------------------------
    trace,      \* history: the block trace the database was constructed
                \* from, until the first commit (new borrows the trace,
                \* the database does not keep it)
    tx_id,      \* the transaction counter
    sdb,        \* the flat store: address -> [exists, acc]
    zktrie,     \* the account trie: address -> [present, data]
    code_db,    \* the code store: set of <<code hash, code length>>
    read,       \* the read the engine waits for or holds the result of
    last,       \* history: the number of commit calls, the last commit's
                \* diff and the database before it
    round,      \* history: per address and slot, the storage root before
                \* the slot's first write and how its zero write ended
    seen        \* history: per address, whether a commit went through
                \* with it and the balance and nonce of its latest diff

copy_vars == <<state, geth_step, result, entry>>

db_vars == <<trace, tx_id, sdb, zktrie, code_db, read, last, round, seen>>

vars ==
    <<state, geth_step, result, entry,
      trace, tx_id, sdb, zktrie, code_db, read, last, round, seen>>

Min(a, b) == IF a < b THEN a ELSE b
Max(a, b) == IF a > b THEN a ELSE b

(***************************************************************************)
(* Operation log (OperationContainer + block_ctx.rwc).                     *)
(*                                                                         *)
(* An operation row is [rwc, rw, target, id, address, field, value];       *)
(* address is 0 for a call-context row and field is "" for a stack or      *)
(* memory row.                                                             *)
(***************************************************************************)
StackOp(call_id, address, value) ==
    [target |-> "Stack", id |-> call_id, address |-> address, field |-> "",
     value |-> value]

MemoryOp(call_id, address, value) ==
    [target |-> "Memory", id |-> call_id, address |-> address, field |-> "",
     value |-> value]

CallContextOp(call_id, field, value) ==
    [target |-> "CallContext", id |-> call_id, address |-> 0, field |-> field,
     value |-> value]

Row(rwc, rw, op) ==
    [rwc |-> rwc, rw |-> rw, target |-> op.target, id |-> op.id,
     address |-> op.address, field |-> op.field, value |-> op.value]

\* state.new_step(geth_step): a fresh ExecStep; it records the row counter
\* and holds no operation yet.
new_step(st) ==
    [rwc |-> st.rwc, bus_mapping_instance |-> <<>>, copy_events |-> <<>>]

\* state.push_op: the row takes the current value of the row counter, the
\* counter advances by one, and the step keeps a reference to the row.
push_op(st, exec_step, rw, op) ==
    [st |-> [st EXCEPT !.container = Append(@, Row(st.rwc, rw, op)),
                       !.rwc = @ + 1],
     exec_step |-> [exec_step EXCEPT !.bus_mapping_instance =
                        Append(@, Len(st.container) + 1)]]

stack_read(st, exec_step, address, value) ==
    push_op(st, exec_step, "READ", StackOp(st.call.call_id, address, value))

call_context_read(st, exec_step, call_id, field, value) ==
    push_op(st, exec_step, "READ", CallContextOp(call_id, field, value))

memory_read(st, exec_step, call_id, address, value) ==
    push_op(st, exec_step, "READ", MemoryOp(call_id, address, value))

memory_write(st, exec_step, call_id, address, value) ==
    push_op(st, exec_step, "WRITE", MemoryOp(call_id, address, value))

(***************************************************************************)
(* The geth stack.  The top of the stack is the last element.              *)
(***************************************************************************)
\* stack.nth_last(i): the i-th word from the top, or a stack underflow.
nth_last(stack, i) ==
    IF i < Len(stack) THEN [ok |-> TRUE, value |-> stack[Len(stack) - i]]
    ELSE [ok |-> FALSE, value |-> 0]

\* stack.nth_last_filled(i): the stack address of the i-th word from the
\* top, modelled as its depth i.
nth_last_filled(stack, i) == i

\* Word::low_u64 and Word::as_u64.  Every operand of the model is far below
\* 2^64 (Operand), where both return the operand's value.
low_u64(w) == w
as_u64(w) == w

(***************************************************************************)
(* Memory::copy_from(dst_offset, src_offset, length, data).                *)
(* The memory is zero-extended to dst_offset + length bytes if it is       *)
(* shorter, then bytes [dst_offset, dst_offset + length) are overwritten   *)
(* with data[src_offset ..], zero where the data ends.                     *)
(***************************************************************************)
extend_at_least(mem, size) ==
    [i \in 1..Max(Len(mem), size) |-> IF i <= Len(mem) THEN mem[i] ELSE 0]

copy_from(mem, dst_offset, src_offset, length, data) ==
    LET ext == extend_at_least(mem, dst_offset + length)
    IN  [i \in 1..Len(ext) |->
            IF i > dst_offset /\ i <= dst_offset + length
            THEN LET j == src_offset + (i - dst_offset)
                 IN  IF j <= Len(data) THEN data[j] ELSE 0
            ELSE ext[i]]

(***************************************************************************)
(* gen_returndatacopy_step (returndatacopy.rs 40-88)                       *)
(***************************************************************************)
\* lines 45-59: the three stack operands, in the order they are read
StackOperandsMisordered(stack) ==
    << [address |-> nth_last_filled(stack, 1), word |-> nth_last(stack, 1)],
       [address |-> nth_last_filled(stack, 0), word |-> nth_last(stack, 0)],
       [address |-> nth_last_filled(stack, 2), word |-> nth_last(stack, 2)] >>

StackOperands(stack) ==
    << [address |-> nth_last_filled(stack, 0), word |-> nth_last(stack, 0)],
       [address |-> nth_last_filled(stack, 1), word |-> nth_last(stack, 1)],
       [address |-> nth_last_filled(stack, 2), word |-> nth_last(stack, 2)] >>

\* lines 68-71: assert_eq!(last_callee_return_data_length, return_data_len)
ReturnDataSizeUnchecked(call, return_data_len) == TRUE

ReturnDataSizeCorrect(call, return_data_len) ==
    call.last_callee_return_data_length = return_data_len

\* lines 74-84: the call-context fields read, with their values
LastCalleeFields(call, return_data_len) ==
    << [field |-> "LastCalleeId", value |-> call.last_callee_id],
       [field |-> "LastCalleeReturnDataOffset",
        value |-> call.last_callee_return_data_offset],
       [field |-> "LastCalleeReturnDataLength", value |-> return_data_len] >>

RECURSIVE StackReads(_, _, _, _)
StackReads(st, exec_step, operands, k) ==
    IF k > Len(operands) THEN [st |-> st, exec_step |-> exec_step]
    ELSE LET r == stack_read(st, exec_step, operands[k].address,
                             operands[k].word.value)
         IN  StackReads(r.st, r.exec_step, operands, k + 1)

RECURSIVE CallContextReads(_, _, _, _, _)
CallContextReads(st, exec_step, call_id, fields, k) ==
    IF k > Len(fields) THEN [st |-> st, exec_step |-> exec_step]
    ELSE LET r == call_context_read(st, exec_step, call_id, fields[k].field,
                                    fields[k].value)
         IN  CallContextReads(r.st, r.exec_step, call_id, fields, k + 1)

\* Returns [kind, st, exec_step]: kind is "Ok", "Err" (the ? of a stack
\* underflow, lines 45-47) or "Panic" (the assertion of line 68).
\* each operand is read as soon as it is taken from the stack
gen_returndatacopy_step_reading_as_it_pops(st, gs) ==
    LET exec_step == new_step(st)
        operands == StackOperands(gs.stack)
    IN  IF \E k \in 1..Len(operands) : ~operands[k].word.ok
        THEN LET r0 == StackReads(st, exec_step,
                           SubSeq(operands, 1, Min(Len(gs.stack), 3)), 1)
             IN  [kind |-> "Err", st |-> r0.st, exec_step |-> r0.exec_step]
        ELSE
        LET r1 == StackReads(st, exec_step, operands, 1)
            call_id == r1.st.call.call_id
            return_data_len == Len(r1.st.return_data)
        IN  IF ~ReturnDataSizeCorrect(r1.st.call, return_data_len)
            THEN [kind |-> "Panic", st |-> r1.st, exec_step |-> r1.exec_step]
            ELSE
            LET r2 == CallContextReads(r1.st, r1.exec_step, call_id,
                          LastCalleeFields(r1.st.call, return_data_len), 1)
            IN  [kind |-> "Ok", st |-> r2.st, exec_step |-> r2.exec_step]

gen_returndatacopy_step(st, gs) ==
    LET exec_step == new_step(st)
        operands == StackOperands(gs.stack)
    IN  IF \E k \in 1..Len(operands) : ~operands[k].word.ok
        THEN [kind |-> "Err", st |-> st, exec_step |-> exec_step]
        ELSE
        LET r1 == StackReads(st, exec_step, operands, 1)
            call_id == r1.st.call.call_id
            return_data_len == Len(r1.st.return_data)
        IN  IF ~ReturnDataSizeCorrect(r1.st.call, return_data_len)
            THEN [kind |-> "Panic", st |-> r1.st, exec_step |-> r1.exec_step]
            ELSE
            LET r2 == CallContextReads(r1.st, r1.exec_step, call_id,
                          LastCalleeFields(r1.st.call, return_data_len), 1)
            IN  [kind |-> "Ok", st |-> r2.st, exec_step |-> r2.exec_step]


(***************************************************************************)
(* state.gen_copy_steps_for_return_data(exec_step, src_addr, src_addr_end, *)
(* dst_addr, length): for i in [0, length), if src_addr + i < src_addr_end *)
(* the byte is read from the callee's return data (a memory read row of    *)
(* the last callee at src_addr + i) and written at dst_addr + i; otherwise *)
(* a zero is written and no read row is emitted.  The return-data buffer   *)
(* backs the callee's addresses from last_callee_return_data_offset on; an *)
(* address outside the buffer is an out-of-bounds index, which panics.     *)
(* Returns [kind, st, exec_step, read_steps, write_steps].                 *)
(***************************************************************************)
RECURSIVE CopySteps(_, _, _, _, _, _, _, _)
CopySteps(st, exec_step, src_addr, src_addr_end, dst_addr, length, i, acc) ==
    IF i >= length
    THEN [kind |-> "Ok", st |-> st, exec_step |-> exec_step,
          read_steps |-> acc.read_steps, write_steps |-> acc.write_steps]
    ELSE IF src_addr + i < src_addr_end
    THEN LET idx == src_addr + i - st.call.last_callee_return_data_offset
         IN  IF idx < 0 \/ idx >= Len(st.return_data)
             THEN [kind |-> "Panic", st |-> st, exec_step |-> exec_step,
                   read_steps |-> acc.read_steps,
                   write_steps |-> acc.write_steps]
             ELSE
             LET byte == st.return_data[idx + 1]
                 r == memory_read(st, exec_step, st.call.last_callee_id,
                                  src_addr + i, byte)
                 w == memory_write(r.st, r.exec_step, st.call.call_id,
                                   dst_addr + i, byte)
             IN  CopySteps(w.st, w.exec_step, src_addr, src_addr_end,
                           dst_addr, length, i + 1,
                           [read_steps |-> Append(acc.read_steps, byte),
                            write_steps |-> Append(acc.write_steps, byte)])
    ELSE LET w == memory_write(st, exec_step, st.call.call_id,
                               dst_addr + i, 0)
         IN  CopySteps(w.st, w.exec_step, src_addr, src_addr_end,
                       dst_addr, length, i + 1,
                       [read_steps |-> acc.read_steps,
                        write_steps |-> Append(acc.write_steps, 0)])

gen_copy_steps_for_return_data(st, exec_step, src_addr, src_addr_end, dst_addr, length) ==
    CopySteps(st, exec_step, src_addr, src_addr_end, dst_addr, length, 0,
              [read_steps |-> <<>>, write_steps |-> <<>>])

(***************************************************************************)
(* gen_copy_event (returndatacopy.rs 90-131)                               *)
(***************************************************************************)
\* line 94: the event starts at the current value of the row counter
RwCounterStartOffByOne(st) == st.rwc + 1

RwCounterStart(st) == st.rwc

\* lines 97-99: the operands of the copy
CopyOperandsLengthFromOffset(stack) ==
    [dst_addr |-> low_u64(nth_last(stack, 0).value),
     data_offset |-> as_u64(nth_last(stack, 1).value),
     length |-> as_u64(nth_last(stack, 1).value)]

CopyOperands(stack) ==
    [dst_addr |-> low_u64(nth_last(stack, 0).value),
     data_offset |-> as_u64(nth_last(stack, 1).value),
     length |-> as_u64(nth_last(stack, 2).value)]

\* lines 101-106: the source range in the callee's address space
SrcRangeEndWithoutOffset(call, data_offset) ==
    [src_addr |-> call.last_callee_return_data_offset + data_offset,
     src_addr_end |-> call.last_callee_return_data_length]

SrcRangeStartPlusOne(call, data_offset) ==
    [src_addr |-> call.last_callee_return_data_offset + data_offset + 1,
     src_addr_end |-> call.last_callee_return_data_offset
                          + call.last_callee_return_data_length]

SrcRange(call, data_offset) ==
    [src_addr |-> call.last_callee_return_data_offset + data_offset,
     src_addr_end |-> call.last_callee_return_data_offset
                          + call.last_callee_return_data_length]

NoEvent == [src_type |-> "None"]

\* Returns [kind, st, event].  The byte rows go to a step of the event
\* builder's own (line 108), not to the step the handler returns.
\* the ids of the two sides are exchanged
gen_copy_event_ids_exchanged(st, gs) ==
    LET rw_counter_start == RwCounterStart(st)
        operands == CopyOperands(gs.stack)
        range == SrcRange(st.call, operands.data_offset)
        exec_step == new_step(st)
        steps == gen_copy_steps_for_return_data(st, exec_step,
                     range.src_addr, range.src_addr_end, operands.dst_addr,
                     operands.length)
    IN  IF steps.kind # "Ok"
        THEN [kind |-> steps.kind, st |-> steps.st, event |-> NoEvent]
        ELSE [kind |-> "Ok", st |-> steps.st,
              event |-> [src_type |-> "Memory",
                         src_id |-> steps.st.call.call_id,
                         src_addr |-> range.src_addr,
                         src_addr_end |-> range.src_addr_end,
                         dst_type |-> "Memory",
                         dst_id |-> steps.st.call.last_callee_id,
                         dst_addr |-> operands.dst_addr,
                         log_id |-> "None",
                         rw_counter_start |-> rw_counter_start,
                         bytes |-> steps.read_steps,
                         aux_bytes |-> steps.write_steps]]

gen_copy_event(st, gs) ==
    LET rw_counter_start == RwCounterStart(st)
        operands == CopyOperands(gs.stack)
        range == SrcRange(st.call, operands.data_offset)
        exec_step == new_step(st)
        steps == gen_copy_steps_for_return_data(st, exec_step,
                     range.src_addr, range.src_addr_end, operands.dst_addr,
                     operands.length)
    IN  IF steps.kind # "Ok"
        THEN [kind |-> steps.kind, st |-> steps.st, event |-> NoEvent]
        ELSE [kind |-> "Ok", st |-> steps.st,
              event |-> [src_type |-> "Memory",
                         src_id |-> steps.st.call.last_callee_id,
                         src_addr |-> range.src_addr,
                         src_addr_end |-> range.src_addr_end,
                         dst_type |-> "Memory",
                         dst_id |-> steps.st.call.call_id,
                         dst_addr |-> operands.dst_addr,
                         log_id |-> "None",
                         rw_counter_start |-> rw_counter_start,
                         bytes |-> steps.read_steps,
                         aux_bytes |-> steps.write_steps]]

\* state.push_copy(exec_step, event): the event joins the block's copy
\* events and is attached to the step.
push_copy(st, exec_step, event) ==
    [st |-> [st EXCEPT !.copy_events = Append(@, event)],
     exec_step |-> [exec_step EXCEPT !.copy_events =
                        Append(@, Len(st.copy_events) + 1)]]

(***************************************************************************)
(* Returndatacopy::gen_associated_ops (returndatacopy.rs 15-37)            *)
(***************************************************************************)
\* lines 24-26, 32: the arguments of memory.copy_from
ReconstructionArgsSwapped(stack) ==
    [dst_offset |-> nth_last(stack, 1).value,
     src_offset |-> nth_last(stack, 0).value,
     length |-> nth_last(stack, 2).value]

ReconstructionArgs(stack) ==
    [dst_offset |-> nth_last(stack, 0).value,
     src_offset |-> nth_last(stack, 1).value,
     length |-> nth_last(stack, 2).value]

\* Returns [kind, st, exec_steps]: "Ok" with the one step, "Err" or "Panic"
\* with none; st is the builder state the call leaves behind.
gen_associated_ops(st, gs) ==
    LET r == gen_returndatacopy_step(st, gs)
    IN  IF r.kind # "Ok"
        THEN [kind |-> r.kind, st |-> r.st, exec_steps |-> <<>>]
        ELSE
        LET args == ReconstructionArgs(gs.stack)
            st2 == [r.st EXCEPT !.memory =
                        copy_from(@, args.dst_offset, args.src_offset,
                                  args.length, r.st.return_data)]
            ce == gen_copy_event(st2, gs)
        IN  IF ce.kind # "Ok"
            THEN [kind |-> ce.kind, st |-> ce.st, exec_steps |-> <<>>]
            ELSE LET p == push_copy(ce.st, r.exec_step, ce.event)
                 IN  [kind |-> "Ok", st |-> p.st,
                      exec_steps |-> <<p.exec_step>>]


(***************************************************************************)
(* EvmDatabase (database.rs): words, hashes and the two representations.   *)
(***************************************************************************)
Addrs == {"a1", "a2"}
\* the words a diff carries: zero and the largest word of the model
Words == {0, MaxWord}
SlotKeys == {0, 1}

\* A word is two digits of radix MaxWord + 1; the byte orders of the code's
\* conversions are kept.
Radix == MaxWord + 1
as_le_slice(w) == <<w % Radix, w \div Radix>>
from_little_endian(bytes) == bytes[1] + bytes[2] * Radix
to_be_bytes(w) == <<w \div Radix, w % Radix>>
from_big_endian(bytes) == bytes[1] * Radix + bytes[2]

\* code hashes: of the empty code, of a contract's code, and H256::zero()
EmptyCodeHash == "poseidon_empty"
EmptyKeccakHash == "keccak_empty"
ZeroHash == "zero"

\* maps (HashMap, trie leaves) are sets of <<key, value>> pairs
MapKeys(m) == { e[1] : e \in m }
MapGet(m, k, default) ==
    IF k \in MapKeys(m) THEN (CHOOSE e \in m : e[1] = k)[2] ELSE default
MapInsert(m, k, v) == { e \in m : e[1] # k } \cup { <<k, v>> }
MapRemove(m, k) == { e \in m : e[1] # k }

\* state_db::Account::zero(): the implicit empty account
AccountZero ==
    [nonce |-> 0, balance |-> 0, code_hash |-> EmptyCodeHash,
     keccak_code_hash |-> EmptyKeccakHash, code_size |-> 0, storage |-> {}]

\* state_db::Account::is_empty
account_is_empty(acc) ==
    acc.nonce = 0 /\ acc.balance = 0 /\ acc.code_hash = EmptyCodeHash

\* revm::primitives::Account::is_empty
incoming_is_empty(incoming) ==
    /\ incoming.info.balance = 0
    /\ incoming.info.nonce = 0
    /\ incoming.info.code_hash = EmptyCodeHash

\* StateDB::get_account: the account, or the zero account when absent
sdb_get_account(db, addr) ==
    IF db[addr].exists THEN [exists |-> TRUE, acc |-> db[addr].acc]
    ELSE [exists |-> FALSE, acc |-> AccountZero]

\* StateDB::get_account_mut: an absent account is created, zero-valued
sdb_get_account_mut(db, addr) ==
    IF db[addr].exists THEN db
    ELSE [db EXCEPT ![addr] = [exists |-> TRUE, acc |-> AccountZero]]

\* StateDB::set_account
sdb_set_account(db, addr, acc) ==
    [db EXCEPT ![addr] = [exists |-> TRUE, acc |-> acc]]

\* StateDB::get_storage: zero when the slot was never written
sdb_get_storage(db, addr, key) ==
    MapGet(sdb_get_account(db, addr).acc.storage, key, 0)

\* AccountData::default() (line 173): every field zero
AccountDataDefault ==
    [nonce |-> 0, balance |-> 0, keccak_code_hash |-> ZeroHash,
     poseidon_code_hash |-> ZeroHash, code_size |-> 0, storage_root |-> {}]

NoLeaf == [present |-> FALSE, data |-> AccountDataDefault]

\* ZkTrie::get_account / update_account: one leaf per address
zktrie_get_account(trie, addr) == trie[addr]
zktrie_update_account(trie, addr, acc_data) ==
    [trie EXCEPT ![addr] = [present |-> TRUE, data |-> acc_data]]

\* A storage sub-trie is its set of leaves <<key bytes, value bytes>>, and
\* its root stands for that set: content-derived, insertion order left out.
new_trie(storage_root) == storage_root
update_store(trie, key_bytes, value_bytes) ==
    MapInsert(trie, key_bytes, value_bytes)
trie_delete(trie, key_bytes) == MapRemove(trie, key_bytes)
trie_root(trie) == trie

(***************************************************************************)
(* EvmDatabase::commit (database.rs 148-248)                               *)
(*                                                                         *)
(* changes is the sequence of <<address, incoming>> in the order the       *)
(* HashMap is iterated; incoming.storage is the sequence of                *)
(* [key, original_value, present_value] in the order it is iterated.       *)
(***************************************************************************)
\* lines 153-156: the address is skipped
SkipAccountWithoutStorage(is_empty, incoming) ==
    is_empty /\ incoming_is_empty(incoming) /\ incoming.storage = <<>>

SkipAccount(is_empty, incoming) ==
    is_empty /\ incoming_is_empty(incoming)

\* lines 186-203: one slot of the storage diff; s is [acc, storage_tire]
CommitSlotFlatOnlyRemove(s, slot) ==
    IF slot.present_value # 0
    THEN [acc |-> [s.acc EXCEPT !.storage =
                      MapInsert(@, from_little_endian(as_le_slice(slot.key)),
                          from_little_endian(as_le_slice(slot.present_value)))],
          storage_tire |-> update_store(s.storage_tire, to_be_bytes(slot.key),
                                        to_be_bytes(slot.present_value))]
    ELSE IF slot.original_value # 0
    THEN [acc |-> [s.acc EXCEPT !.storage =
                      MapRemove(@, from_little_endian(as_le_slice(slot.key)))],
          storage_tire |-> s.storage_tire]
    ELSE s

\* a zero new value is stored instead of removing the slot
CommitSlotStoresZero(s, slot) ==
    IF slot.present_value # 0 \/ slot.original_value # 0
    THEN [acc |-> [s.acc EXCEPT !.storage =
                      MapInsert(@, from_little_endian(as_le_slice(slot.key)),
                          from_little_endian(as_le_slice(slot.present_value)))],
          storage_tire |-> update_store(s.storage_tire, to_be_bytes(slot.key),
                                        to_be_bytes(slot.present_value))]
    ELSE s

CommitSlot(s, slot) ==
    IF slot.present_value # 0
    THEN [acc |-> [s.acc EXCEPT !.storage =
                      MapInsert(@, from_little_endian(as_le_slice(slot.key)),
                          from_little_endian(as_le_slice(slot.present_value)))],
          storage_tire |-> update_store(s.storage_tire, to_be_bytes(slot.key),
                                        to_be_bytes(slot.present_value))]
    ELSE IF slot.original_value # 0
    THEN [acc |-> [s.acc EXCEPT !.storage =
                      MapRemove(@, from_little_endian(as_le_slice(slot.key)))],
          storage_tire |-> trie_delete(s.storage_tire, to_be_bytes(slot.key))]
    ELSE s

RECURSIVE CommitSlots(_, _, _)
CommitSlots(s, storage, k) ==
    IF k > Len(storage) THEN s
    ELSE CommitSlots(CommitSlot(s, storage[k]), storage, k + 1)

\* lines 175-207: p is [acc, acc_data]
\* the root is taken before the last slot of the loop is applied
CommitStorageRootBeforeLastSlot(p, incoming) ==
    IF incoming.storage # <<>>
    THEN LET storage_root_before == p.acc_data.storage_root
             s == CommitSlots([acc |-> p.acc,
                               storage_tire |-> new_trie(storage_root_before)],
                              incoming.storage, 1)
             t == CommitSlots([acc |-> p.acc,
                               storage_tire |-> new_trie(storage_root_before)],
                              SubSeq(incoming.storage, 1,
                                     Len(incoming.storage) - 1), 1)
         IN  [acc |-> s.acc,
              acc_data |-> [p.acc_data EXCEPT !.storage_root =
                                trie_root(t.storage_tire)]]
    ELSE p

CommitStorage(p, incoming) ==
    IF incoming.storage # <<>>
    THEN LET storage_root_before == p.acc_data.storage_root
             s == CommitSlots([acc |-> p.acc,
                               storage_tire |-> new_trie(storage_root_before)],
                              incoming.storage, 1)
         IN  [acc |-> s.acc,
              acc_data |-> [p.acc_data EXCEPT !.storage_root =
                                trie_root(s.storage_tire)]]
    ELSE p

\* lines 209-213
CommitBalanceFlatOnly(p, incoming) ==
    LET new_balance == from_little_endian(as_le_slice(incoming.info.balance))
    IN  IF p.acc.balance # new_balance
        THEN [acc |-> [p.acc EXCEPT !.balance = new_balance],
              acc_data |-> p.acc_data]
        ELSE p

CommitBalance(p, incoming) ==
    LET new_balance == from_little_endian(as_le_slice(incoming.info.balance))
    IN  IF p.acc.balance # new_balance
        THEN [acc |-> [p.acc EXCEPT !.balance = new_balance],
              acc_data |-> [p.acc_data EXCEPT !.balance = new_balance]]
        ELSE p

\* lines 215-218
CommitNonce(p, incoming) ==
    IF p.acc.nonce # incoming.info.nonce
    THEN [acc |-> [p.acc EXCEPT !.nonce = incoming.info.nonce],
          acc_data |-> [p.acc_data EXCEPT !.nonce = incoming.info.nonce]]
    ELSE p

\* lines 220-239
\* the code fields follow a changed code hash only
CommitCodeOnHashChangeOnly(is_empty, p, incoming) ==
    IF p.acc.code_hash # incoming.info.code_hash
    THEN LET poseidon_code_hash == incoming.info.code_hash
             keccak_code_hash == incoming.info.keccak_code_hash
             code_size == IF incoming.info.code.is_some
                          THEN incoming.info.code.len ELSE 0
         IN  [acc |-> [p.acc EXCEPT !.code_hash = poseidon_code_hash,
                                    !.keccak_code_hash = keccak_code_hash,
                                    !.code_size = code_size],
              acc_data |-> [p.acc_data EXCEPT
                                !.poseidon_code_hash = poseidon_code_hash,
                                !.keccak_code_hash = keccak_code_hash,
                                !.code_size = code_size]]
    ELSE p

CommitCode(is_empty, p, incoming) ==
    IF (is_empty /\ ~incoming_is_empty(incoming))
           \/ p.acc.code_hash # incoming.info.code_hash
    THEN LET poseidon_code_hash == incoming.info.code_hash
             keccak_code_hash == incoming.info.keccak_code_hash
             code_size == IF incoming.info.code.is_some
                          THEN incoming.info.code.len ELSE 0
         IN  [acc |-> [p.acc EXCEPT !.code_hash = poseidon_code_hash,
                                    !.keccak_code_hash = keccak_code_hash,
                                    !.code_size = code_size],
              acc_data |-> [p.acc_data EXCEPT
                                !.poseidon_code_hash = poseidon_code_hash,
                                !.keccak_code_hash = keccak_code_hash,
                                !.code_size = code_size]]
    ELSE p

\* lines 151-243: one address of the diff; db is [sdb, zktrie]
\* the leaf is built from AccountData::default(), not from the stored leaf
CommitAccountFromDefaultLeaf(db, addr, incoming) ==
    LET sdb1 == sdb_get_account_mut(db.sdb, addr)
        acc == sdb1[addr].acc
        is_empty == account_is_empty(acc)
    IN  IF SkipAccount(is_empty, incoming)
        THEN [sdb |-> sdb1, zktrie |-> db.zktrie]
        ELSE
        LET acc_data == AccountDataDefault
            p1 == CommitStorage([acc |-> acc, acc_data |-> acc_data], incoming)
            p2 == CommitBalance(p1, incoming)
            p3 == CommitNonce(p2, incoming)
            p4 == CommitCode(is_empty, p3, incoming)
        IN  [sdb |-> [sdb1 EXCEPT ![addr].acc = p4.acc],
             zktrie |-> zktrie_update_account(db.zktrie, addr, p4.acc_data)]

CommitAccount(db, addr, incoming) ==
    LET sdb1 == sdb_get_account_mut(db.sdb, addr)
        acc == sdb1[addr].acc
        is_empty == account_is_empty(acc)
    IN  IF SkipAccount(is_empty, incoming)
        THEN [sdb |-> sdb1, zktrie |-> db.zktrie]
        ELSE
        LET leaf == zktrie_get_account(db.zktrie, addr)
            acc_data == IF leaf.present THEN leaf.data ELSE AccountDataDefault
            p1 == CommitStorage([acc |-> acc, acc_data |-> acc_data], incoming)
            p2 == CommitBalance(p1, incoming)
            p3 == CommitNonce(p2, incoming)
            p4 == CommitCode(is_empty, p3, incoming)
        IN  [sdb |-> [sdb1 EXCEPT ![addr].acc = p4.acc],
             zktrie |-> zktrie_update_account(db.zktrie, addr, p4.acc_data)]

\* lines 150-244: the loop over the diff
RECURSIVE CommitChanges(_, _, _)
CommitChanges(db, changes, k) ==
    IF k > Len(changes) THEN db
    ELSE CommitChanges(CommitAccount(db, changes[k][1], changes[k][2]),
                       changes, k + 1)

\* lines 149-247
\* the counter advances inside the loop, once per address
commit_counting_addresses(db, changes) ==
    LET after == CommitChanges([sdb |-> db.sdb, zktrie |-> db.zktrie],
                               changes, 1)
    IN  [tx_id |-> db.tx_id + Len(changes),
         sdb |-> after.sdb, zktrie |-> after.zktrie]

commit(db, changes) ==
    LET after == CommitChanges([sdb |-> db.sdb, zktrie |-> db.zktrie],
                               changes, 1)
    IN  [tx_id |-> db.tx_id + 1, sdb |-> after.sdb, zktrie |-> after.zktrie]

\* EvmDatabase::root (lines 72-74): the root stands for the set of leaves
root(trie) == { <<a, trie[a].data>> : a \in { b \in Addrs : trie[b].present } }

\* basic_ref (lines 81-106): None for an account the store does not hold
NoInfo ==
    [is_some |-> FALSE, balance |-> 0, nonce |-> 0, code_hash |-> ZeroHash,
     keccak_code_hash |-> ZeroHash, code |-> [is_some |-> FALSE, len |-> 0]]

\* the exist flag of the lookup is not looked at
basic_ref_ignoring_exist(db, codes, address) ==
    LET acc == sdb_get_account(db, address).acc
    IN  [is_some |-> TRUE,
         balance |-> from_big_endian(to_be_bytes(acc.balance)),
         nonce |-> acc.nonce,
         code_hash |-> acc.code_hash,
         keccak_code_hash |-> acc.keccak_code_hash,
         code |-> [is_some |-> TRUE,
                   len |-> MapGet(codes, acc.code_hash, 0)]]

basic_ref(db, codes, address) ==
    LET found == sdb_get_account(db, address)
        exist == found.exists
        acc == found.acc
    IN  IF exist
        THEN [is_some |-> TRUE,
              balance |-> from_big_endian(to_be_bytes(acc.balance)),
              nonce |-> acc.nonce,
              code_hash |-> acc.code_hash,
              keccak_code_hash |-> acc.keccak_code_hash,
              code |-> [is_some |-> TRUE,
                        len |-> MapGet(codes, acc.code_hash, 0)]]
        ELSE NoInfo

\* storage_ref (lines 114-120)
storage_ref(db, addr, index) ==
    from_big_endian(to_be_bytes(
        sdb_get_storage(db, addr, from_little_endian(as_le_slice(index)))))

(***************************************************************************)
(* EvmDatabase::new (database.rs 26-70).  A block trace is the accounts    *)
(* and storage values of its proofs; the zktrie is built from the same     *)
(* proofs, so the two representations agree.                               *)
(***************************************************************************)
RECURSIVE SetAccounts(_, _, _)
SetAccounts(db, accounts, k) ==
    IF k > Len(accounts) THEN db
    ELSE LET addr == accounts[k][1]
             acc_data == accounts[k][2]
         IN  SetAccounts(
                 sdb_set_account(db, addr,
                     [nonce |-> acc_data.nonce, balance |-> acc_data.balance,
                      code_hash |-> acc_data.poseidon_code_hash,
                      keccak_code_hash |-> acc_data.keccak_code_hash,
                      code_size |-> acc_data.code_size, storage |-> {}]),
                 accounts, k + 1)

RECURSIVE SetStorages(_, _, _)
SetStorages(db, storages, k) ==
    IF k > Len(storages) THEN db
    ELSE LET addr == storages[k][1]
             db1 == sdb_get_account_mut(db, addr)
         IN  SetStorages(
                 [db1 EXCEPT ![addr].acc.storage =
                      MapInsert(@, storages[k][2], storages[k][3])],
                 storages, k + 1)

\* the storage sub-trie the storage proofs of one address describe
ProvenStorageRoot(storages, addr) ==
    { <<to_be_bytes(storages[k][2]), to_be_bytes(storages[k][3])>> :
        k \in { i \in 1..Len(storages) :
                  storages[i][1] = addr /\ storages[i][3] # 0 } }

\* lines 47-62: the account trie opened at the root the trace supplies
TrieAt(root_before) ==
    [a \in Addrs |->
        IF a \in MapKeys(root_before)
        THEN [present |-> TRUE, data |-> MapGet(root_before, a, AccountDataDefault)]
        ELSE NoLeaf]

\* lines 43-45: the code store holds the empty code and the codes of the
\* trace's accounts
update_codedb(db, l2_trace) ==
    db \cup { << l2_trace.accounts[k][2].poseidon_code_hash,
                 l2_trace.accounts[k][2].code_size >> :
               k \in 1..Len(l2_trace.accounts) }

\* the storage proofs are not read into the Flat Store
new_without_storage_proofs(l2_trace) ==
    [tx_id |-> 1,
     sdb |-> SetAccounts([a \in Addrs |->
                             [exists |-> FALSE, acc |-> AccountZero]],
                         l2_trace.accounts, 1),
     code_db |-> update_codedb({ <<EmptyCodeHash, 0>> }, l2_trace),
     zktrie |-> TrieAt(l2_trace.root_before)]

new(l2_trace) ==
    [tx_id |-> 1,
     sdb |-> SetStorages(
                 SetAccounts([a \in Addrs |->
                                 [exists |-> FALSE, acc |-> AccountZero]],
                             l2_trace.accounts, 1),
                 l2_trace.storages, 1),
     code_db |-> update_codedb({ <<EmptyCodeHash, 0>> }, l2_trace),
     zktrie |-> TrieAt(l2_trace.root_before)]


(***************************************************************************)
(* The database as a state machine: construction from a block trace, then  *)
(* one commit per transaction with the diff the execution engine yields.   *)
(***************************************************************************)
NoCode ==
    [code_hash |-> EmptyCodeHash, keccak_code_hash |-> EmptyKeccakHash,
     code |-> [is_some |-> FALSE, len |-> 0]]

\* a contract's code, and the same code hash with other companion fields
Code1 ==
    [code_hash |-> "poseidon_c1", keccak_code_hash |-> "keccak_c1",
     code |-> [is_some |-> TRUE, len |-> 1]]

Code1Alt ==
    [code_hash |-> "poseidon_c1", keccak_code_hash |-> "keccak_c1_alt",
     code |-> [is_some |-> FALSE, len |-> 0]]

Info(balance, nonce, c) ==
    [balance |-> balance, nonce |-> nonce, code_hash |-> c.code_hash,
     keccak_code_hash |-> c.keccak_code_hash, code |-> c.code]

EmptyInfo == Info(0, 0, NoCode)
FundedInfo == Info(MaxWord, 0, NoCode)

Infos ==
    { Info(b, n, NoCode) : b \in Words, n \in {0, 1} }
        \cup { Info(0, n, c) : n \in {0, 1}, c \in {Code1, Code1Alt} }

Write(key, value) == [key |-> key, present_value |-> value]

\* the slots a diff carries with their new values, in iteration order
StorageWrites ==
    { <<Write(k, v)>> : k \in SlotKeys, v \in Words }
        \cup { <<Write(0, v[1]), Write(1, v[2])>> :
                 v \in { <<MaxWord, MaxWord>>, <<0, MaxWord>>, <<0, 0>> } }
        \cup { <<Write(1, v[2]), Write(0, v[1])>> :
                 v \in { <<MaxWord, MaxWord>>, <<0, MaxWord>>, <<0, 0>> } }

Incomings ==
    { [info |-> i, storage |-> <<>>] : i \in Infos }
        \cup { [info |-> i, storage |-> w] :
                 i \in {EmptyInfo, FundedInfo}, w \in StorageWrites }

Probes1 ==
    { [info |-> EmptyInfo, storage |-> <<Write(0, MaxWord)>>],
      [info |-> FundedInfo, storage |-> <<Write(0, 0), Write(1, MaxWord)>>] }

Probes2 ==
    { [info |-> EmptyInfo, storage |-> <<>>],
      [info |-> FundedInfo, storage |-> <<>>] }

\* the diffs of the model, in iteration order: the empty diff, one address,
\* and two addresses in both orders
Diffs ==
    { <<>> }
        \cup { << <<"a1", i>> >> : i \in Incomings }
        \cup { << <<"a2", i>> >> : i \in Probes2 }
        \cup { << <<"a1", i>>, <<"a2", j>> >> : i \in Probes1, j \in Probes2 }
        \cup { << <<"a2", j>>, <<"a1", i>> >> : i \in Probes1, j \in Probes2 }

\* The engine loads a slot's original value from this database
\* (storage_ref) and the database changes only in commit, so the diff
\* records as original value what the flat store holds at the commit.
WithOriginals(db, changes) ==
    [k \in 1..Len(changes) |->
        << changes[k][1],
           [info |-> changes[k][2].info,
            storage |->
                [j \in 1..Len(changes[k][2].storage) |->
                    [key |-> changes[k][2].storage[j].key,
                     original_value |->
                         storage_ref(db, changes[k][1],
                                     changes[k][2].storage[j].key),
                     present_value |->
                         changes[k][2].storage[j].present_value]]] >>]

ProvenAccount(balance, nonce, c) ==
    [nonce |-> nonce, balance |-> balance,
     keccak_code_hash |-> c.keccak_code_hash,
     poseidon_code_hash |-> c.code_hash,
     code_size |-> c.code.len, storage_root |-> {}]

\* The root of the account trie the proofs of a trace belong to: the trace
\* is authenticated input, so root_before is the root of its proofs.
ProvenRoot(accounts, storages) ==
    { << accounts[k][1],
         [accounts[k][2] EXCEPT
              !.storage_root = ProvenStorageRoot(storages, accounts[k][1])] >> :
        k \in 1..Len(accounts) }

Trace(accounts, storages) ==
    [accounts |-> accounts, storages |-> storages,
     root_before |-> ProvenRoot(accounts, storages)]

\* block traces: no proof; a funded account; a contract with one slot; the
\* same with the proof that another slot is empty
Traces ==
    { Trace(<<>>, <<>>),
      Trace(<< <<"a1", ProvenAccount(1, 0, NoCode)>> >>, <<>>),
      Trace(<< <<"a1", ProvenAccount(0, 1, Code1)>> >>,
            << <<"a1", 0, 1>> >>),
      Trace(<< <<"a1", ProvenAccount(0, 1, Code1)>> >>,
            << <<"a1", 0, 1>>, <<"a1", 1, 0>> >>) }

\* the incoming account of addr in a diff
InDiff(changes, addr) == \E k \in 1..Len(changes) : changes[k][1] = addr
IncomingOf(changes, addr) ==
    changes[CHOOSE k \in 1..Len(changes) : changes[k][1] = addr][2]

\* the storage root recorded in the leaf of addr (the empty root without one)
LeafRoot(trie, addr) ==
    IF trie[addr].present THEN trie[addr].data.storage_root ELSE {}

\* whether the commit of changes on db skips addr
Skips(db, changes, addr) ==
    SkipAccount(account_is_empty(sdb_get_account(db, addr).acc),
                IncomingOf(changes, addr))

NoRound == [marked |-> FALSE, root |-> {}, zeroed |-> "no"]

\* History of one slot over a commit.  A diff whose only slot of the
\* address is key, with a nonzero value, in a commit that does not skip
\* the address while the sub-trie does not hold the key, marks the slot
\* with the storage root before it; a diff whose
\* only slot is key, with value zero, ends the round ("applied", or
\* "skipped" when the commit skips the address); a diff with another slot
\* of the address drops the mark.
NextRound(r, db, trie, changes, addr, key) ==
    LET r0 == IF r.zeroed # "no" THEN NoRound ELSE r
    IN  IF ~InDiff(changes, addr) THEN r0
        ELSE
        LET storage == IncomingOf(changes, addr).storage
            keys == { storage[j].key : j \in 1..Len(storage) }
        IN  IF keys = {} THEN r0
            ELSE IF keys # {key} THEN NoRound
            ELSE IF storage[1].present_value # 0
            THEN IF /\ ~r0.marked
                    /\ ~Skips(db, changes, addr)
                    /\ to_be_bytes(key) \notin MapKeys(LeafRoot(trie, addr))
                 THEN [marked |-> TRUE, root |-> LeafRoot(trie, addr),
                       zeroed |-> "no"]
                 ELSE r0
            ELSE IF r0.marked
            THEN [r0 EXCEPT !.zeroed =
                      IF Skips(db, changes, addr) THEN "skipped"
                      ELSE "applied"]
            ELSE r0

NoDiff == [touched |-> FALSE, recent |-> FALSE, balance |-> 0, nonce |-> 0]

\* History of one address over a commit.
NextSeen(r, db, changes, addr) ==
    IF ~InDiff(changes, addr) THEN r
    ELSE [touched |-> r.touched \/ ~Skips(db, changes, addr),
          recent |-> TRUE,
          balance |-> IncomingOf(changes, addr).info.balance,
          nonce |-> IncomingOf(changes, addr).info.nonce]

NoRead ==
    [op |-> "none", address |-> "", index |-> 0, info |-> NoInfo,
     value |-> 0]

NoCommit ==
    [committed |-> FALSE, calls |-> 0, changes |-> <<>>, tx_id |-> 0,
     sdb |-> [a \in Addrs |-> [exists |-> FALSE, acc |-> AccountZero]],
     zktrie |-> [a \in Addrs |-> NoLeaf]]

\* the part of the state the opcode handler owns stays as constructed
CopyIdle ==
    /\ state = [rwc |-> 1, container |-> <<>>,
                call |-> [call_id |-> 1, last_callee_id |-> 2,
                          last_callee_return_data_offset |-> 0,
                          last_callee_return_data_length |-> 0],
                memory |-> <<>>, return_data |-> <<>>, copy_events |-> <<>>]
    /\ geth_step = [stack |-> <<>>]
    /\ result = [kind |-> "Pending", exec_steps |-> <<>>]
    /\ entry = [memory |-> <<>>, return_data |-> <<>>, rwc |-> 1,
                rows |-> 0, events |-> 0]

DbInit ==
    /\ \E l2_trace \in Traces :
          LET db == new(l2_trace)
          IN  /\ trace = l2_trace
              /\ tx_id = db.tx_id
              /\ code_db = db.code_db
              /\ sdb = db.sdb
              /\ zktrie = db.zktrie
    /\ read = NoRead
    /\ last = NoCommit
    /\ round = [a \in Addrs |-> [k \in SlotKeys |-> NoRound]]
    /\ seen = [a \in Addrs |-> NoDiff]
    /\ CopyIdle

\* The engine yields the diff of a transaction and the database commits it.
Commit ==
    /\ tx_id <= MaxTx
    /\ read.op = "none"
    /\ \E d \in Diffs :
          LET changes == WithOriginals(sdb, d)
              db == commit([tx_id |-> tx_id, sdb |-> sdb, zktrie |-> zktrie],
                           changes)
          IN  /\ tx_id' = db.tx_id
              /\ sdb' = db.sdb
              /\ zktrie' = db.zktrie
              /\ last' = [committed |-> TRUE, calls |-> last.calls + 1,
                          changes |-> changes,
                          tx_id |-> tx_id, sdb |-> sdb, zktrie |-> zktrie]
              /\ round' = [a \in Addrs |-> [k \in SlotKeys |->
                              NextRound(round[a][k], sdb, zktrie, changes,
                                        a, k)]]
              /\ seen' = [a \in Addrs |->
                              NextSeen(seen[a], sdb, changes, a)]
    /\ trace' = Trace(<<>>, <<>>)
    /\ UNCHANGED <<code_db, read>>
    /\ UNCHANGED copy_vars

\* The engine loads an account (Database::basic, lines 131-133).
BasicRef ==
    /\ read.op = "none"
    /\ \E address \in Addrs :
          read' = [op |-> "basic_ref", address |-> address, index |-> 0,
                   info |-> basic_ref(sdb, code_db, address), value |-> 0]
    /\ UNCHANGED <<trace, tx_id, sdb, zktrie, code_db, last, round, seen>>
    /\ UNCHANGED copy_vars

\* The engine loads a storage slot (Database::storage, lines 139-141).
StorageRef ==
    /\ read.op = "none"
    /\ \E address \in Addrs, index \in SlotKeys :
          read' = [op |-> "storage_ref", address |-> address,
                   index |-> index, info |-> NoInfo,
                   value |-> storage_ref(sdb, address, index)]
    /\ UNCHANGED <<trace, tx_id, sdb, zktrie, code_db, last, round, seen>>
    /\ UNCHANGED copy_vars

\* The engine takes the result of the read and goes on: execution is
\* sequential, one call at a time.
TakeResult ==
    /\ read.op # "none"
    /\ read' = NoRead
    /\ UNCHANGED <<trace, tx_id, sdb, zktrie, code_db, last, round, seen>>
    /\ UNCHANGED copy_vars

\* the database stays as constructed from the empty trace
DbIdle ==
    /\ trace = Trace(<<>>, <<>>)
    /\ tx_id = 1
    /\ code_db = { <<EmptyCodeHash, 0>> }
    /\ read = NoRead
    /\ sdb = NoCommit.sdb
    /\ zktrie = NoCommit.zktrie
    /\ last = NoCommit
    /\ round = [a \in Addrs |-> [k \in SlotKeys |-> NoRound]]
    /\ seen = [a \in Addrs |-> NoDiff]

DbNext == Commit \/ BasicRef \/ StorageRef \/ TakeResult

SpecDb == DbInit /\ [][DbNext]_vars

(***************************************************************************)
(* The opcode handler as a state machine.                                  *)
(***************************************************************************)
Byte == 0..MaxByte
Operand == 0..MaxOff

\* return-data buffers: every length up to MaxRet, the bytes counting up
\* from 1 or from 2 so that each position is told from its neighbours
ReturnDatas ==
    { [i \in 1..n |-> (i + k) % (MaxByte + 1)] : n \in 0..MaxRet, k \in {0, 1} }

\* initial memories of the current call: nonzero marker bytes
Memories == { [i \in 1..n |-> MaxByte] : n \in 0..MaxMem }

\* stacks of three words, the stacks too short for the opcode, and deeper
\* stacks
Stacks ==
    [1..3 -> Operand]
        \cup { <<>>, <<1>>, <<1, 0>> }
        \cup { <<MaxOff>> \o s : s \in { <<0, 0, 0>>, <<1, 0, 1>> } }

Pending == [kind |-> "Pending", exec_steps |-> <<>>]

Snapshot(st) ==
    [memory |-> st.memory, return_data |-> st.return_data, rwc |-> st.rwc,
     rows |-> Len(st.container), events |-> Len(st.copy_events)]

\* A fresh block: the row counter is 1 and the log is empty.  The
\* bookkeeping of the last call records the buffer's length as the
\* return-data length, or another length when the caller is corrupted.
CopyInit ==
    /\ \E rd \in ReturnDatas, mem \in Memories, base \in 0..MaxBase :
       \E recorded \in {Len(rd), (Len(rd) + 1) % (MaxRet + 1)} :
          state = [rwc |-> 1, container |-> <<>>,
                   call |-> [call_id |-> 1, last_callee_id |-> 2,
                             last_callee_return_data_offset |-> base,
                             last_callee_return_data_length |-> recorded],
                   memory |-> mem, return_data |-> rd, copy_events |-> <<>>]
    /\ \E s \in Stacks : geth_step = [stack |-> s]
    /\ result = Pending
    /\ entry = Snapshot(state)
    /\ DbIdle

\* The builder handles the RETURNDATACOPY step at hand.
HandleReturndatacopy ==
    /\ result.kind = "Pending"
    /\ LET r == gen_associated_ops(state, geth_step)
       IN  /\ state' = r.st
           /\ result' = [kind |-> r.kind, exec_steps |-> r.exec_steps]
    /\ entry' = Snapshot(state)
    /\ UNCHANGED geth_step
    /\ UNCHANGED db_vars

\* The interpreter's trace goes on with another RETURNDATACOPY; a failed
\* step aborts the block.
NextGethStep ==
    /\ result.kind = "Ok"
    /\ state.rwc <= MaxRwc
    /\ \E s \in Stacks : geth_step' = [stack |-> s]
    /\ result' = Pending
    /\ UNCHANGED <<state, entry>>
    /\ UNCHANGED db_vars

CopyNext == HandleReturndatacopy \/ NextGethStep

SpecCopy == CopyInit /\ [][CopyNext]_vars


(***************************************************************************)
(* Properties of the opcode handler (checked under SpecCopy).              *)
(***************************************************************************)
\* the operands of the step handled last
DstOffset == nth_last(geth_step.stack, 0).value
SrcOffset == nth_last(geth_step.stack, 1).value
Length == nth_last(geth_step.stack, 2).value

\* the last call returned "Ok": its step and its copy event are at hand
Handled == result.kind = "Ok"
LastStep == result.exec_steps[1]
LastEvent == state.copy_events[Len(state.copy_events)]

\* the rows the last call emitted, and those among them that follow the
\* six rows of the step builder
NewRows == SubSeq(state.container, entry.rows + 1, Len(state.container))
CopyRows == SubSeq(state.container, entry.rows + 7, Len(state.container))

\* the bytes of the return-data buffer available from the source offset on
Available == Max(0, Len(state.return_data) - SrcOffset)

BaseOffset == state.call.last_callee_return_data_offset

IsMemoryRow(row, rw, id, address) ==
    /\ row.target = "Memory" /\ row.rw = rw
    /\ row.id = id /\ row.address = address

\* C1 (copy truncation law): a copy event of requested length L whose
\* source has A bytes available from the source offset on has a written
\* trace of exactly L entries and a read trace of exactly min(L, A)
\* entries, and every written byte at an index >= A is zero; for every
\* source offset.
C1_CopyTruncationLaw ==
    Handled =>
        /\ Len(LastEvent.aux_bytes) = Length
        /\ Len(LastEvent.bytes) = Min(Length, Available)
        /\ \A i \in 0..(Length - 1) :
              i >= Available => LastEvent.aux_bytes[i + 1] = 0

\* a truncated copy from a nonzero source offset that still reads a byte
C1_Witness ==
    /\ Handled
    /\ SrcOffset > 0
    /\ Available > 0
    /\ Length > Available

\* C2 (per-index copy rule): for every i in [0, length), if src_addr + i <
\* src_addr_end the byte return_data[source_offset + i] is read (a read row
\* of the last callee at src_addr + i) and written at dst_addr + i, so
\* aux_bytes[i] = bytes[i] = return_data[source_offset + i]; otherwise a
\* zero is written and no read row is emitted for i.  A source offset at or
\* beyond src_addr_end gives an all-zero written trace, an empty read trace
\* and no read row.
C2_PerIndexCopyRule ==
    Handled =>
        /\ \A i \in 0..(Length - 1) :
              /\ \E k \in 1..Len(CopyRows) :
                    /\ IsMemoryRow(CopyRows[k], "WRITE", state.call.call_id,
                                   DstOffset + i)
                    /\ CopyRows[k].value = LastEvent.aux_bytes[i + 1]
              /\ IF BaseOffset + SrcOffset + i
                        < BaseOffset + Len(state.return_data)
                 THEN /\ LastEvent.aux_bytes[i + 1]
                            = state.return_data[SrcOffset + i + 1]
                      /\ LastEvent.bytes[i + 1]
                            = state.return_data[SrcOffset + i + 1]
                      /\ \E k \in 1..Len(CopyRows) :
                            /\ IsMemoryRow(CopyRows[k], "READ",
                                   state.call.last_callee_id,
                                   BaseOffset + SrcOffset + i)
                            /\ CopyRows[k].value
                                   = state.return_data[SrcOffset + i + 1]
                 ELSE /\ LastEvent.aux_bytes[i + 1] = 0
                      /\ \A k \in 1..Len(CopyRows) :
                            ~IsMemoryRow(CopyRows[k], "READ",
                                   state.call.last_callee_id,
                                   BaseOffset + SrcOffset + i)
        /\ Cardinality({k \in 1..Len(CopyRows) : CopyRows[k].rw = "READ"})
              = Len(LastEvent.bytes)
        /\ SrcOffset >= LastEvent.src_addr_end =>
              /\ \A i \in 1..Length : LastEvent.aux_bytes[i] = 0
              /\ LastEvent.bytes = <<>>
              /\ \A k \in 1..Len(CopyRows) : CopyRows[k].rw = "WRITE"

\* a copy from a buffer at a nonzero base offset whose first byte is read
\* and whose last byte is a zero fill
C2_Witness ==
    /\ Handled
    /\ BaseOffset > 0
    /\ Length > 1
    /\ SrcOffset < Len(state.return_data)
    /\ SrcOffset + Length > Len(state.return_data)
    /\ LastEvent.aux_bytes[1] # 0

\* C3 (zero-length copy): with length = 0 the copy event has empty read and
\* write traces and no memory row is emitted (the row counter after the
\* copy builder is the event's rw_counter_start), yet exactly one copy
\* event is pushed and attached to the step.
C3_ZeroLengthCopy ==
    (Handled /\ Length = 0) =>
        /\ LastEvent.bytes = <<>>
        /\ LastEvent.aux_bytes = <<>>
        /\ \A k \in 1..Len(NewRows) : NewRows[k].target # "Memory"
        /\ state.rwc = LastEvent.rw_counter_start
        /\ Len(state.copy_events) = entry.events + 1
        /\ LastStep.copy_events = <<Len(state.copy_events)>>

\* a zero-length copy with a nonzero source offset into a nonempty buffer
C3_Witness ==
    /\ Handled
    /\ Length = 0
    /\ SrcOffset > 0
    /\ Len(state.return_data) > 0
    /\ Len(state.copy_events) = entry.events + 1

\* C6 (row ordering): over any sequence of RETURNDATACOPY steps the rows of
\* the operation log carry strictly increasing, gap-free row indices, and
\* the copy event's rw_counter_start is the row counter right after the
\* step's stack and call-context reads, so the byte rows directly follow.
C6_RowOrdering ==
    /\ \A k \in 1..Len(state.container) :
          state.container[k].rwc = state.container[1].rwc + k - 1
    /\ state.container # <<>> =>
          state.rwc = state.container[1].rwc + Len(state.container)
    /\ Handled =>
          /\ LastEvent.rw_counter_start = NewRows[6].rwc + 1
          /\ LastEvent.rw_counter_start = entry.rwc + 6
          /\ CopyRows # <<>> =>
                /\ CopyRows[1].rwc = LastEvent.rw_counter_start
                /\ CopyRows[1].target = "Memory"
          /\ state.rwc = LastEvent.rw_counter_start + Len(CopyRows)

\* a second step has been handled and its copy emitted byte rows
C6_Witness ==
    /\ Handled
    /\ Len(state.copy_events) = 2
    /\ Len(CopyRows) > 1

\* C7 (step builder rows): the returned step carries exactly six rows, in
\* this order: stack reads of the destination offset (depth 0), the source
\* offset (depth 1) and the length (depth 2), then call-context reads of
\* LastCalleeId, LastCalleeReturnDataOffset and LastCalleeReturnDataLength;
\* the step builder advances the row counter by six.
C7_StepBuilderRows ==
    Handled =>
        /\ LastStep.bus_mapping_instance
              = [k \in 1..6 |-> entry.rows + k]
        /\ \A k \in 1..6 : NewRows[k].rwc = entry.rwc + k - 1
        /\ \A k \in 1..6 :
              NewRows[k].rw = "READ" /\ NewRows[k].id = state.call.call_id
        /\ \A k \in 1..3 : /\ NewRows[k].target = "Stack"
                           /\ NewRows[k].address = k - 1
        /\ NewRows[1].value = DstOffset
        /\ NewRows[2].value = SrcOffset
        /\ NewRows[3].value = Length
        /\ \A k \in 4..6 : NewRows[k].target = "CallContext"
        /\ NewRows[4].field = "LastCalleeId"
        /\ NewRows[4].value = state.call.last_callee_id
        /\ NewRows[5].field = "LastCalleeReturnDataOffset"
        /\ NewRows[5].value = BaseOffset
        /\ NewRows[6].field = "LastCalleeReturnDataLength"
        /\ NewRows[6].value = state.call.last_callee_return_data_length
        /\ \A k \in 1..Len(CopyRows) : CopyRows[k].target = "Memory"
        /\ LastEvent.rw_counter_start = LastStep.rwc + 6

\* a handled step whose three operands differ, with byte rows after the six
C7_Witness ==
    /\ Handled
    /\ DstOffset # SrcOffset
    /\ SrcOffset # Length
    /\ DstOffset # Length
    /\ Len(NewRows) > 6

\* the recorded return-data length differs from the buffer's length
Mismatch ==
    state.call.last_callee_return_data_length # Len(state.return_data)

\* C8 (return-data consistency check): when the recorded
\* last_callee_return_data_length differs from the length of the buffered
\* return data the call never completes: with its three operands on the
\* stack the step builder panics on the assertion, no call-context row is
\* emitted, the memory is not mutated and no copy event is recorded; in a
\* run that completes, the LastCalleeReturnDataLength row carries the
\* buffer's length.
C8_ReturnDataConsistency ==
    /\ (result.kind # "Pending" /\ Mismatch) =>
          /\ result.kind # "Ok"
          /\ Len(geth_step.stack) >= 3 => result.kind = "Panic"
          /\ \A k \in 1..Len(NewRows) : NewRows[k].target # "CallContext"
          /\ state.memory = entry.memory
          /\ Len(state.copy_events) = entry.events
          /\ result.exec_steps = <<>>
    /\ Handled =>
          /\ NewRows[6].field = "LastCalleeReturnDataLength"
          /\ NewRows[6].value = Len(state.return_data)

\* the assertion failed after the three stack reads
C8_Witness ==
    /\ result.kind = "Panic"
    /\ Mismatch
    /\ Len(NewRows) = 3
    /\ Length > 0

\* C9 (destination mutation): after RETURNDATACOPY(dst, src, len) the
\* memory is at least dst + len bytes long (zero-extended if it was
\* shorter), byte dst + i is the i-th byte of the written trace for i in
\* [0, len), every byte outside [dst, dst + len) that existed before is
\* unchanged, and the return-data buffer is unchanged.
C9_DestinationMutation ==
    Handled =>
        /\ Len(state.memory) >= DstOffset + Length
        /\ Len(state.memory) >= Len(entry.memory)
        /\ \A i \in 0..(Length - 1) :
              state.memory[DstOffset + i + 1] = LastEvent.aux_bytes[i + 1]
        /\ \A j \in 1..Len(state.memory) :
              (j <= DstOffset \/ j > DstOffset + Length) =>
                  state.memory[j] =
                      IF j <= Len(entry.memory) THEN entry.memory[j] ELSE 0
        /\ state.return_data = entry.return_data

\* a copy that grows the memory past a gap, with a byte read from the source
C9_Witness ==
    /\ Handled
    /\ Len(entry.memory) > 0
    /\ DstOffset > Len(entry.memory)
    /\ Length > 0
    /\ LastEvent.bytes # <<>>
    /\ DstOffset # SrcOffset

(***************************************************************************)
(* Properties of EvmDatabase::commit                                       *)
(***************************************************************************)
FlatAccount(db, addr) == sdb_get_account(db, addr).acc

\* addr is in the last commit's diff, its Flat Store account was empty
\* before the commit and its incoming account is empty
EmptyBeforeAndAfter(addr) ==
    /\ last.committed
    /\ InDiff(last.changes, addr)
    /\ account_is_empty(FlatAccount(last.sdb, addr))
    /\ incoming_is_empty(IncomingOf(last.changes, addr))

SlotAbsent(addr, key) ==
    /\ key \notin MapKeys(FlatAccount(sdb, addr).storage)
    /\ to_be_bytes(key) \notin MapKeys(LeafRoot(zktrie, addr))

\* C5 as stated: after a commit wrote a nonzero value to a slot and a later
\* commit's diff carries zero for it (no other slot of the account in the
\* diffs in between), the slot is absent from the Flat Store map and from
\* the storage sub-trie, and the root the leaf records is the root before
\* the first write.
C5_DeletionRoundTrip ==
    \A a \in Addrs : \A k \in SlotKeys :
        round[a][k].zeroed # "no" =>
            /\ SlotAbsent(a, k)
            /\ LeafRoot(zktrie, a) = round[a][k].root

\* C5 amended: the same, when the commit that carries the zero does not
\* skip the address.
C5_DeletionRoundTripApplied ==
    \A a \in Addrs : \A k \in SlotKeys :
        round[a][k].zeroed = "applied" =>
            /\ SlotAbsent(a, k)
            /\ LeafRoot(zktrie, a) = round[a][k].root

\* the zero write removed a stored nonzero value from an account whose
\* sub-trie holds another slot
C5_Witness ==
    \E a \in Addrs : \E k \in SlotKeys :
        /\ round[a][k].zeroed = "applied"
        /\ round[a][k].root # {}
        /\ k \in MapKeys(FlatAccount(last.sdb, a).storage)
        /\ MapGet(FlatAccount(last.sdb, a).storage, k, 0) # 0

\* the trie leaf recomputed from a Flat Store account
LeafOf(acc) ==
    [nonce |-> acc.nonce, balance |-> acc.balance,
     keccak_code_hash |-> acc.keccak_code_hash,
     poseidon_code_hash |-> acc.code_hash,
     code_size |-> acc.code_size,
     storage_root |->
         { <<to_be_bytes(e[1]), to_be_bytes(e[2])>> :
             e \in { x \in acc.storage : x[2] # 0 } }]

\* C10: every address some commit did not skip has a trie leaf whose
\* balance, nonce, code hashes and code size are those of its Flat Store
\* account, balance and nonce being those of the latest diff for the
\* address; and the leaves recomputed from the Flat Store are the leaves of
\* the trie (an address without leaf has an empty account and no slot).
C10_Lockstep ==
    \A a \in Addrs :
        LET acc == FlatAccount(sdb, a)
            leaf == zktrie[a]
        IN  /\ seen[a].touched =>
                  /\ leaf.present
                  /\ leaf.data.balance = acc.balance
                  /\ leaf.data.nonce = acc.nonce
                  /\ leaf.data.poseidon_code_hash = acc.code_hash
                  /\ leaf.data.keccak_code_hash = acc.keccak_code_hash
                  /\ leaf.data.code_size = acc.code_size
                  /\ acc.balance = seen[a].balance
                  /\ acc.nonce = seen[a].nonce
            /\ leaf.present => leaf.data = LeafOf(acc)
            /\ ~leaf.present => LeafOf(acc) = LeafOf(AccountZero)

\* after two commits, the last one changed the balance, the code and the
\* storage of an account
C10_Witness ==
    \E a \in Addrs :
        /\ seen[a].touched
        /\ tx_id >= 3
        /\ FlatAccount(sdb, a).balance # FlatAccount(last.sdb, a).balance
        /\ FlatAccount(sdb, a).storage # FlatAccount(last.sdb, a).storage
        /\ \E b \in Addrs :
              FlatAccount(sdb, b).code_hash # FlatAccount(last.sdb, b).code_hash

\* addr is in the last commit's diff and the commit did not skip it
NotSkipped(addr) ==
    /\ last.committed
    /\ InDiff(last.changes, addr)
    /\ ~(/\ account_is_empty(FlatAccount(last.sdb, addr))
         /\ incoming_is_empty(IncomingOf(last.changes, addr)))

\* the entries of a Flat Store map or of a sub-trie that hold zero
ZeroEntries(m) == { e \in m : e[2] = 0 }
ZeroLeaves(t) == { e \in t : e[2] = to_be_bytes(0) }

\* C11: after a commit, every slot of a non-skipped address's storage diff
\* with a nonzero new value holds that value in the Flat Store map and in
\* the storage sub-trie, and every slot with new value zero and a nonzero
\* previous value is in neither; the nonzero slot/value pairs of the Flat
\* Store map are the leaves of the sub-trie; the sub-trie holds no zero, and
\* the Flat Store map holds no zero that was not there before the commit.
C11_StorageWriteRule ==
    \A a \in Addrs :
        LET storage == FlatAccount(sdb, a).storage
            tire == LeafRoot(zktrie, a)
        IN  /\ NotSkipped(a) =>
                  \A j \in 1..Len(IncomingOf(last.changes, a).storage) :
                      LET slot == IncomingOf(last.changes, a).storage[j]
                      IN  /\ slot.present_value # 0 =>
                                /\ <<slot.key, slot.present_value>> \in storage
                                /\ <<to_be_bytes(slot.key),
                                     to_be_bytes(slot.present_value)>> \in tire
                          /\ (slot.present_value = 0
                                  /\ slot.original_value # 0) =>
                                /\ slot.key \notin MapKeys(storage)
                                /\ to_be_bytes(slot.key) \notin MapKeys(tire)
            /\ { <<to_be_bytes(e[1]), to_be_bytes(e[2])>> :
                   e \in storage \ ZeroEntries(storage) } = tire
            /\ ZeroLeaves(tire) = {}
            /\ last.committed =>
                  ZeroEntries(storage)
                      \subseteq ZeroEntries(FlatAccount(last.sdb, a).storage)

\* one commit wrote a nonzero value to one slot and removed another slot
\* that held a nonzero value
C11_Witness ==
    \E a \in Addrs :
        /\ NotSkipped(a)
        /\ \E i, j \in 1..Len(IncomingOf(last.changes, a).storage) :
              /\ IncomingOf(last.changes, a).storage[i].present_value # 0
              /\ IncomingOf(last.changes, a).storage[j].present_value = 0
              /\ IncomingOf(last.changes, a).storage[j].original_value # 0

\* the orders in which a sequence of distinct elements can be visited
Orders(seq) ==
    { p \in [1..Len(seq) -> { seq[i] : i \in 1..Len(seq) }] :
        \A i, j \in 1..Len(seq) : i # j => p[i] # p[j] }

\* the same diff, its slots visited in the orders chosen by pick
Reslotted(changes, pick) ==
    [k \in 1..Len(changes) |->
        << changes[k][1],
           [info |-> changes[k][2].info, storage |-> pick[k]] >>]

\* the orders in which HashMap iteration can present one diff
Reorderings(changes) ==
    LET SlotOrders ==
            UNION { Orders(changes[k][2].storage) : k \in 1..Len(changes) }
        Picks == { f \in [1..Len(changes) -> SlotOrders] :
                     \A k \in 1..Len(changes) :
                         f[k] \in Orders(changes[k][2].storage) }
    IN  UNION { Orders(Reslotted(changes, pick)) : pick \in Picks }

\* C12: the Flat Store, every trie leaf with its storage sub-trie and the
\* trie root after a commit are those the commit gives for every other
\* order of the diff's addresses and of each address's slots.
C12_OrderIndependence ==
    last.committed =>
        \A changes \in Reorderings(last.changes) :
            LET db == commit([tx_id |-> last.tx_id, sdb |-> last.sdb,
                              zktrie |-> last.zktrie], changes)
            IN  /\ db.sdb = sdb
                /\ db.zktrie = zktrie
                /\ \A a \in Addrs :
                      LeafRoot(db.zktrie, a) = LeafRoot(zktrie, a)
                /\ root(db.zktrie) = root(zktrie)

\* a commit changed two addresses, one of them by removing one slot and
\* writing another
C12_Witness ==
    /\ last.committed
    /\ Len(last.changes) = 2
    /\ \A a \in Addrs : NotSkipped(a) /\ zktrie[a] # last.zktrie[a]
    /\ \E a \in Addrs :
          \E i, j \in 1..Len(IncomingOf(last.changes, a).storage) :
              /\ IncomingOf(last.changes, a).storage[i].present_value # 0
              /\ IncomingOf(last.changes, a).storage[j].present_value = 0
              /\ IncomingOf(last.changes, a).storage[j].original_value # 0
    /\ Cardinality(Reorderings(last.changes)) = 4

\* the account trie recomputed from the Flat Store: one leaf per account
\* that is not empty or holds a nonzero slot
RecomputedRoot(db) ==
    { <<a, LeafOf(db[a].acc)>> :
        a \in { b \in Addrs :
                  /\ db[b].exists
                  /\ LeafOf(db[b].acc) # LeafOf(AccountZero) } }

\* C13: before any commit, root() is the trace's root_before, the Flat
\* Store holds the accounts of the account proofs and the values of the
\* storage proofs and nothing else, and the root recomputed from the Flat
\* Store is root_before.
C13_PreStateRoot ==
    (~last.committed /\ tx_id = 1) =>
        /\ root(zktrie) = trace.root_before
        /\ \A k \in 1..Len(trace.accounts) :
              LET acc == sdb[trace.accounts[k][1]]
                  acc_data == trace.accounts[k][2]
              IN  /\ acc.exists
                  /\ acc.acc.balance = acc_data.balance
                  /\ acc.acc.nonce = acc_data.nonce
                  /\ acc.acc.code_hash = acc_data.poseidon_code_hash
                  /\ acc.acc.keccak_code_hash = acc_data.keccak_code_hash
                  /\ acc.acc.code_size = acc_data.code_size
        /\ \A a \in Addrs :
              /\ sdb[a].exists =>
                    \E k \in 1..Len(trace.accounts) : trace.accounts[k][1] = a
              /\ sdb[a].acc.storage =
                    { <<trace.storages[k][2], trace.storages[k][3]>> :
                        k \in { i \in 1..Len(trace.storages) :
                                  trace.storages[i][1] = a } }
        /\ RecomputedRoot(sdb) = trace.root_before

\* a database constructed from an account proof, a storage proof of a
\* nonzero value and a storage proof of an empty slot
C13_Witness ==
    /\ ~last.committed
    /\ tx_id = 1
    /\ trace.root_before # {}
    /\ \E a \in Addrs :
          /\ ZeroEntries(sdb[a].acc.storage) # {}
          /\ sdb[a].acc.storage # ZeroEntries(sdb[a].acc.storage)

\* a step that returns from a read
ReadStep == read.op = "none" /\ read'.op # "none"

\* C14: a read of an account the Flat Store does not hold returns no
\* account info, a read of a slot that was never written returns zero, and
\* no read changes the Flat Store, the trie, the root or the transaction
\* counter; a step that changes one of them is a commit.
C14_Reads ==
    [][/\ ReadStep =>
            /\ (read'.op = "basic_ref" /\ ~sdb[read'.address].exists) =>
                  ~read'.info.is_some
            /\ (/\ read'.op = "storage_ref"
                /\ read'.index \notin
                       MapKeys(FlatAccount(sdb, read'.address).storage)) =>
                  read'.value = 0
            /\ sdb' = sdb
            /\ zktrie' = zktrie
            /\ root(zktrie') = root(zktrie)
            /\ tx_id' = tx_id
       /\ <<sdb, zktrie, tx_id>>' # <<sdb, zktrie, tx_id>> =>
            /\ last'.committed
            /\ last'.tx_id = tx_id
            /\ tx_id' = tx_id + 1]_vars

\* the engine holds the result of reading an account the store does not
\* hold while the store holds another account, after a commit
C14_Witness ==
    /\ read.op = "basic_ref"
    /\ ~sdb[read.address].exists
    /\ ~read.info.is_some
    /\ \E a \in Addrs : sdb[a].exists /\ sdb[a].acc.storage # {}
    /\ last.committed

\* the three code fields of a Flat Store account and of a leaf
CodeFields(acc) == <<acc.code_hash, acc.keccak_code_hash, acc.code_size>>
LeafCodeFields(acc_data) ==
    <<acc_data.poseidon_code_hash, acc_data.keccak_code_hash,
      acc_data.code_size>>

\* the account of addr was empty before the last commit and its incoming
\* account is not, or the incoming code hash is not the stored one
CodeChanges(addr) ==
    \/ /\ account_is_empty(FlatAccount(last.sdb, addr))
       /\ ~incoming_is_empty(IncomingOf(last.changes, addr))
    \/ IncomingOf(last.changes, addr).info.code_hash
           # FlatAccount(last.sdb, addr).code_hash

\* C15: after a commit, the code hash, the keccak code hash and the code
\* size of a non-skipped address are the incoming ones (size zero without
\* code) in the Flat Store and in the leaf when the account was empty and
\* the incoming one is not or the code hash differs, and otherwise what
\* they were before the commit in both.
C15_CodeFields ==
    \A a \in Addrs :
        NotSkipped(a) =>
            LET info == IncomingOf(last.changes, a).info
                incoming_fields ==
                    <<info.code_hash, info.keccak_code_hash,
                      IF info.code.is_some THEN info.code.len ELSE 0>>
            IN  IF CodeChanges(a)
                THEN /\ CodeFields(FlatAccount(sdb, a)) = incoming_fields
                     /\ LeafCodeFields(zktrie[a].data) = incoming_fields
                ELSE /\ CodeFields(FlatAccount(sdb, a)) =
                            CodeFields(FlatAccount(last.sdb, a))
                     /\ LeafCodeFields(zktrie[a].data) =
                            LeafCodeFields(last.zktrie[a].data)

\* a commit replaced the code fields of a contract by those of an incoming
\* account without code
C15_Witness ==
    \E a \in Addrs :
        /\ NotSkipped(a)
        /\ CodeChanges(a)
        /\ ~account_is_empty(FlatAccount(last.sdb, a))
        /\ FlatAccount(last.sdb, a).code_size # 0
        /\ ~IncomingOf(last.changes, a).info.code.is_some
        /\ FlatAccount(sdb, a).code_size = 0
        /\ zktrie[a].data.code_size = 0

\* the sub-trie of addr after the slot updates of the last commit's diff:
\* the slots of the diff leave the old sub-trie and those with a nonzero
\* new value enter with it
RootAfterSlots(addr) ==
    LET storage == IncomingOf(last.changes, addr).storage
        slots == { storage[j] : j \in 1..Len(storage) }
    IN  { e \in LeafRoot(last.zktrie, addr) :
            \A slot \in slots : e[1] # to_be_bytes(slot.key) }
        \cup { <<to_be_bytes(slot.key), to_be_bytes(slot.present_value)>> :
                 slot \in { x \in slots : x.present_value # 0 } }

\* C16: after a commit, every non-skipped address of the diff has its leaf,
\* composed from its Flat Store account, with the storage root recomputed
\* after the slot updates when its storage diff is not empty and the
\* previous storage root when it is; a skipped address gets no leaf; the
\* Flat Store record, the leaf and the storage sub-trie of an address that
\* is not in the diff are what they were.
C16_LeafWriteAndFrame ==
    last.committed =>
        \A a \in Addrs :
            /\ NotSkipped(a) =>
                  /\ zktrie[a].present
                  /\ zktrie[a].data = LeafOf(FlatAccount(sdb, a))
                  /\ zktrie[a].data.storage_root =
                        IF IncomingOf(last.changes, a).storage # <<>>
                        THEN RootAfterSlots(a)
                        ELSE LeafRoot(last.zktrie, a)
            /\ (InDiff(last.changes, a) /\ ~NotSkipped(a)) =>
                  zktrie[a] = last.zktrie[a]
            /\ ~InDiff(last.changes, a) =>
                  /\ sdb[a] = last.sdb[a]
                  /\ zktrie[a] = last.zktrie[a]
                  /\ LeafRoot(zktrie, a) = LeafRoot(last.zktrie, a)

\* a commit changed an account that has slots without touching its storage,
\* while another address with a leaf was not in the diff
C16_Witness ==
    \E a, b \in Addrs :
        /\ NotSkipped(a)
        /\ IncomingOf(last.changes, a).storage = <<>>
        /\ LeafRoot(last.zktrie, a) # {}
        /\ zktrie[a] # last.zktrie[a]
        /\ ~InDiff(last.changes, b)
        /\ zktrie[b].present

\* C17: the transaction counter is 1 after construction and one more than
\* the number of commit calls ever after, whatever the diffs were and
\* whatever was read in between.
C17_TransactionCounter ==
    /\ tx_id = last.calls + 1
    /\ ~last.committed => tx_id = 1
    /\ last.committed => tx_id = last.tx_id + 1

\* the second commit was called with the empty diff, and a read followed
C17_Witness ==
    /\ last.calls = 2
    /\ last.changes = <<>>
    /\ tx_id = 3
    /\ read.op # "none"

\* C18: a RETURNDATACOPY handled with fewer than three operands on the
\* stack returns the stack error with no step; no row has been emitted, the
\* row counter, the memory and the return data are what they were, and no
\* copy event is recorded.
C18_StackUnderflow ==
    (result.kind # "Pending" /\ Len(geth_step.stack) < 3) =>
        /\ result.kind = "Err"
        /\ result.exec_steps = <<>>
        /\ NewRows = <<>>
        /\ Len(state.container) = entry.rows
        /\ state.rwc = entry.rwc
        /\ state.memory = entry.memory
        /\ state.return_data = entry.return_data
        /\ Len(state.copy_events) = entry.events

\* after a RETURNDATACOPY that emitted its rows, one with two operands
\* fails
C18_Witness ==
    /\ result.kind = "Err"
    /\ Len(geth_step.stack) = 2
    /\ entry.rows > 0
    /\ entry.events > 0

\* C19: a RETURNDATACOPY handled successfully returns one step with one
\* copy event attached, the one event the call recorded: from Memory of the
\* last callee to Memory of the current call, dst_addr the destination
\* offset, src_addr the return-data offset plus the source offset,
\* src_addr_end the return-data offset plus the return-data length, and no
\* log id.
C19_CopyEventIdentity ==
    Handled =>
        /\ Len(result.exec_steps) = 1
        /\ Len(LastStep.copy_events) = 1
        /\ Len(state.copy_events) = entry.events + 1
        /\ LastStep.copy_events[1] = Len(state.copy_events)
        /\ LastEvent.src_type = "Memory"
        /\ LastEvent.dst_type = "Memory"
        /\ LastEvent.src_id = state.call.last_callee_id
        /\ LastEvent.dst_id = state.call.call_id
        /\ LastEvent.dst_addr = DstOffset
        /\ LastEvent.src_addr = BaseOffset + SrcOffset
        /\ LastEvent.src_addr_end =
               BaseOffset + state.call.last_callee_return_data_length
        /\ LastEvent.log_id = "None"

\* the second copy of a block, from a nonzero source offset of return data
\* held at a nonzero offset of the callee's memory
C19_Witness ==
    /\ Handled
    /\ entry.events > 0
    /\ BaseOffset > 0
    /\ SrcOffset > 0
    /\ DstOffset > 0
    /\ Length > 0
    /\ LastEvent.src_addr < LastEvent.src_addr_end

=============================================================================
